---- MODULE Spec2Model ----
(***************************************************************************)
(* Shares fungible token of examples/nft-shares-fungible-token/ft:         *)
(* the contract state (token ledger + shares metadata), the init method    *)
(* `create`, the ledger calls wired in by impl_fungible_token_core /       *)
(* impl_fungible_token_storage, and the four valuation queries.            *)
(*                                                                         *)
(* Amounts are u128 in the contract.  The model keeps the width but scales *)
(* it down: every amount lives in 0 .. U128_MODULUS-1 and an arithmetic    *)
(* result outside that range either panics (overflow-checks = true) or     *)
(* wraps modulo U128_MODULUS (overflow-checks = false).  Which of the two  *)
(* happens is fixed by the build profile, chosen in Init.                  *)
(***************************************************************************)
EXTENDS Integers, FiniteSets, Sequences, TLC

VARIABLES state_exists,     \* env::state_exists(): the contract was initialised
          token,            \* Contract.token : FungibleToken
          metadata,         \* Contract.metadata : LazyOption<SharesMetadata>
          overflow_checks,  \* build profile: does integer overflow panic?
          ret               \* the last call: its name, arguments and outcome

vars == <<state_exists, token, metadata, overflow_checks, ret>>

----------------------------------------------------------------------------
(* Bounds of the model *)

U128_MODULUS == 5     \* stands for 2^128, the number of u128 values
MaxShares == 3        \* largest shares_count / transfer amount tried
MaxPrice == 2         \* largest share_price tried

----------------------------------------------------------------------------
(* Values of the tests and of the wired-in library *)

DECIMALS == 8
NFT_CONTRACT_ADDRESS == "nft.near"
NFT_TOKEN_ID == "0"
SHARES_FT_METADATA_SPEC == "shares-ft-1.0.0"
storage_balance_min == 2
ONE_YOCTO == 1

Accounts == {"alice", "bob", "charlie"}
DecimalsTried == {0, DECIMALS}
U128 == 0 .. (U128_MODULUS - 1)
SharesTried == {n \in U128 : n <= MaxShares}
PricesTried == {n \in U128 : n <= MaxPrice}
DepositsTried == {0, ONE_YOCTO, storage_balance_min}

----------------------------------------------------------------------------
(* Outcomes of a call: a returned amount, or a panic with its message *)

Ok(v) == [ok |-> TRUE, val |-> v, msg |-> ""]
Panic(m) == [ok |-> FALSE, val |-> 0, msg |-> m]

Some(x) == <<x>>
None == <<>>
unwrap(o) == o[1]

(* u128 `a * b` *)
mul(a, b) ==
    IF a * b < U128_MODULUS THEN Ok(a * b)
    ELSE IF overflow_checks THEN Panic("attempt to multiply with overflow")
    ELSE Ok((a * b) % U128_MODULUS)

(* u128 `a - b` *)
sub(a, b) ==
    IF a >= b THEN Ok(a - b)
    ELSE IF overflow_checks THEN Panic("attempt to subtract with overflow")
    ELSE Ok((a - b + U128_MODULUS) % U128_MODULUS)

----------------------------------------------------------------------------
(* near_contract_standards::fungible_token::FungibleToken, the ledger the  *)
(* contract embeds.  A ledger operation yields the new ledger or a panic.  *)

Done(tok) == [ok |-> TRUE, msg |-> "", token |-> tok]
Abort(tok, m) == [ok |-> FALSE, msg |-> m, token |-> tok]

(* FungibleToken::new(prefix): no account, nothing issued *)
FungibleToken_new == [accounts |-> [a \in {} |-> 0], total_supply |-> 0]

internal_register_account(tok, account_id) ==
    IF account_id \in DOMAIN tok.accounts
    THEN Abort(tok, "The account is already registered")
    ELSE Done([tok EXCEPT !.accounts =
                 [a \in (DOMAIN tok.accounts) \cup {account_id} |->
                     IF a = account_id THEN 0 ELSE tok.accounts[a]]])

(* the mutant of internal_deposit: the total supply is not updated *)
internal_deposit_no_supply(tok, account_id, amount) ==
    IF account_id \notin DOMAIN tok.accounts
    THEN Abort(tok, "The account is not registered")
    ELSE IF tok.accounts[account_id] + amount >= U128_MODULUS
    THEN Abort(tok, "Balance overflow")
    ELSE Done([accounts |-> [tok.accounts EXCEPT ![account_id] = @ + amount],
               total_supply |-> tok.total_supply])

internal_deposit(tok, account_id, amount) ==
    IF account_id \notin DOMAIN tok.accounts
    THEN Abort(tok, "The account is not registered")
    ELSE IF tok.accounts[account_id] + amount >= U128_MODULUS
    THEN Abort(tok, "Balance overflow")
    ELSE IF tok.total_supply + amount >= U128_MODULUS
    THEN Abort(tok, "Total supply overflow")
    ELSE Done([accounts |-> [tok.accounts EXCEPT ![account_id] = @ + amount],
               total_supply |-> tok.total_supply + amount])

(* the mutant of internal_withdraw: the sender's balance is left as it was *)
internal_withdraw_keep(tok, account_id, amount) ==
    IF account_id \notin DOMAIN tok.accounts
    THEN Abort(tok, "The account is not registered")
    ELSE IF tok.accounts[account_id] < amount
    THEN Abort(tok, "The account doesn't have enough balance")
    ELSE IF tok.total_supply < amount
    THEN Abort(tok, "Total supply overflow")
    ELSE Done([accounts |-> tok.accounts,
               total_supply |-> tok.total_supply - amount])

internal_withdraw(tok, account_id, amount) ==
    IF account_id \notin DOMAIN tok.accounts
    THEN Abort(tok, "The account is not registered")
    ELSE IF tok.accounts[account_id] < amount
    THEN Abort(tok, "The account doesn't have enough balance")
    ELSE IF tok.total_supply < amount
    THEN Abort(tok, "Total supply overflow")
    ELSE Done([accounts |-> [tok.accounts EXCEPT ![account_id] = @ - amount],
               total_supply |-> tok.total_supply - amount])

internal_transfer(tok, sender_id, receiver_id, amount) ==
    IF sender_id = receiver_id
    THEN Abort(tok, "Sender and receiver should be different")
    ELSE IF ~(amount > 0)
    THEN Abort(tok, "The amount should be a positive number")
    ELSE LET w == internal_withdraw(tok, sender_id, amount)
         IN  IF ~w.ok THEN Abort(tok, w.msg)
             ELSE LET d == internal_deposit(w.token, receiver_id, amount)
                  IN  IF ~d.ok THEN Abort(tok, d.msg) ELSE d

(* FungibleTokenCore::ft_total_supply / ft_balance_of on the contract *)
ft_total_supply == token.total_supply

balance_of(tok, account_id) ==
    IF account_id \in DOMAIN tok.accounts THEN tok.accounts[account_id] ELSE 0

ft_balance_of(account_id) == balance_of(token, account_id)

----------------------------------------------------------------------------
(* SharesMetadata and its provider *)

assert_valid(md) ==
    /\ md.spec = SHARES_FT_METADATA_SPEC
    /\ (md.reference = None) <=> (md.reference_hash = None)

ft_metadata == unwrap(metadata)
released == ft_metadata.released
share_price == ft_metadata.share_price

----------------------------------------------------------------------------
(* Contract: initialisation *)

Built(tok, md) == [ok |-> TRUE, msg |-> "", token |-> tok, metadata |-> md]
Failed(m) == [ok |-> FALSE, msg |-> m, token |-> token, metadata |-> metadata]

(* the mutant of new: the owner is registered but the supply is never deposited *)
new_no_deposit(owner_id, total_supply, md) ==
    IF state_exists THEN Failed("Already initialized")
    ELSE IF ~assert_valid(md) THEN Failed("assertion failed")
    ELSE LET r == internal_register_account(FungibleToken_new, owner_id)
         IN  IF ~r.ok THEN Failed(r.msg) ELSE Built(r.token, Some(md))

new(owner_id, total_supply, md) ==
    IF state_exists THEN Failed("Already initialized")
    ELSE IF ~assert_valid(md) THEN Failed("assertion failed")
    ELSE LET r == internal_register_account(FungibleToken_new, owner_id)
         IN  IF ~r.ok THEN Failed(r.msg)
             ELSE LET d == internal_deposit(r.token, owner_id, total_supply)
                  IN  IF ~d.ok THEN Failed(d.msg) ELSE Built(d.token, Some(md))

(* the mutant of create: the metadata is stored as already released *)
create_released(nft_contract_address, nft_token_id, owner_id, shares_count, decimals, price) ==
    new(owner_id, shares_count,
        [spec |-> SHARES_FT_METADATA_SPEC,
         reference |-> None,
         reference_hash |-> None,
         decimals |-> decimals,
         nft_contract_address |-> nft_contract_address,
         nft_token_id |-> nft_token_id,
         share_price |-> price,
         released |-> TRUE])

create(nft_contract_address, nft_token_id, owner_id, shares_count, decimals, price) ==
    new(owner_id, shares_count,
        [spec |-> SHARES_FT_METADATA_SPEC,
         reference |-> None,
         reference_hash |-> None,
         decimals |-> decimals,
         nft_contract_address |-> nft_contract_address,
         nft_token_id |-> nft_token_id,
         share_price |-> price,
         released |-> FALSE])

----------------------------------------------------------------------------
(* Contract: the valuation queries *)

(* the mutant of exit_price: the supply and the price are added *)
exit_price_sum ==
    IF ft_total_supply + share_price < U128_MODULUS
    THEN Ok(ft_total_supply + share_price)
    ELSE IF overflow_checks THEN Panic("attempt to add with overflow")
    ELSE Ok((ft_total_supply + share_price) % U128_MODULUS)

exit_price == mul(ft_total_supply, share_price)

(* the mutant of redeem_amount_of: the holder's shares are not priced *)
redeem_amount_of_unpriced(from) ==
    IF released THEN Panic("token already redeemed")
    ELSE LET user_shares == ft_balance_of(from)
             e == exit_price
         IN  IF ~e.ok THEN e ELSE sub(e.val, user_shares)

(* the mutant of redeem_amount_of: the released check is left out *)
redeem_amount_of_unchecked(from) ==
    LET user_shares == ft_balance_of(from)
        e == exit_price
    IN  IF ~e.ok THEN e
        ELSE LET m == mul(user_shares, share_price)
             IN  IF ~m.ok THEN m ELSE sub(e.val, m.val)

(* the mutant of redeem_amount_of: the whole supply is charged *)
redeem_amount_of_full(from) ==
    IF released THEN Panic("token already redeemed") ELSE exit_price

redeem_amount_of(from) ==
    IF released THEN Panic("token already redeemed")
    ELSE LET user_shares == ft_balance_of(from)
             e == exit_price
         IN  IF ~e.ok THEN e
             ELSE LET m == mul(user_shares, share_price)
                  IN  IF ~m.ok THEN m ELSE sub(e.val, m.val)

(* the mutant of vault_balance: the supply is not priced *)
vault_balance_unpriced ==
    IF ~released THEN Ok(0) ELSE Ok(ft_total_supply)

vault_balance ==
    IF ~released THEN Ok(0) ELSE mul(ft_total_supply, share_price)

(* the mutant of vault_balance_of: the released test is inverted *)
vault_balance_of_inverted(from) ==
    IF released THEN Ok(0)
    ELSE LET user_shares == ft_balance_of(from)
         IN  mul(user_shares, share_price)

vault_balance_of(from) ==
    IF ~released THEN Ok(0)
    ELSE LET user_shares == ft_balance_of(from)
         IN  mul(user_shares, share_price)

----------------------------------------------------------------------------
(* The contract as a state machine: one action per exported method.  A     *)
(* panicking call leaves the contract state as it was; `ret` records it.   *)

NOT_INITIALIZED == "The contract is not initialized"

(* what `ret` keeps of a call: the arguments of a call that panicked are dropped *)
Called(op, args, out) == [op |-> op, args |-> IF out.ok THEN args ELSE <<>>, out |-> out]

Init ==
    /\ state_exists = FALSE
    /\ token = FungibleToken_new
    /\ metadata = None
    /\ overflow_checks \in BOOLEAN
    /\ ret = Called("deploy", <<>>, Ok(0))

Create ==
    \E owner_id \in Accounts, shares_count \in SharesTried,
       decimals \in DecimalsTried, price \in PricesTried :
        LET r == create(NFT_CONTRACT_ADDRESS, NFT_TOKEN_ID, owner_id,
                        shares_count, decimals, price)
        IN  /\ state_exists' = (state_exists \/ r.ok)
            /\ token' = r.token
            /\ metadata' = r.metadata
            /\ ret' = Called("create",
                             [owner_id |-> owner_id, shares_count |-> shares_count,
                              decimals |-> decimals, share_price |-> price],
                             IF r.ok THEN Ok(0) ELSE Panic(r.msg))
            /\ UNCHANGED overflow_checks

(* StorageManagement::storage_deposit(account_id, registration_only) *)
storage_deposit(predecessor, account_id, attached_deposit) ==
    LET id == IF account_id = None THEN predecessor ELSE unwrap(account_id)
    IN  IF id \in DOMAIN token.accounts THEN Done(token)
        ELSE IF attached_deposit < storage_balance_min
        THEN Abort(token, "The attached deposit is less than the minimum storage balance")
        ELSE internal_register_account(token, id)

StorageDeposit ==
    \E predecessor \in Accounts,
       account_id \in {None} \cup {Some(a) : a \in Accounts},
       attached_deposit \in DepositsTried :
        LET r == IF state_exists
                 THEN storage_deposit(predecessor, account_id, attached_deposit)
                 ELSE Abort(token, NOT_INITIALIZED)
        IN  /\ token' = r.token
            /\ ret' = Called("storage_deposit",
                             [account_id |-> IF account_id = None THEN predecessor
                                             ELSE unwrap(account_id)],
                             IF r.ok THEN Ok(storage_balance_min) ELSE Panic(r.msg))
            /\ UNCHANGED <<state_exists, metadata, overflow_checks>>

(* FungibleTokenCore::ft_transfer(receiver_id, amount, memo) *)
ft_transfer(predecessor, receiver_id, amount, attached_deposit) ==
    IF attached_deposit # ONE_YOCTO
    THEN Abort(token, "Requires attached deposit of exactly 1 yoctoNEAR")
    ELSE internal_transfer(token, predecessor, receiver_id, amount)

FtTransfer ==
    \E predecessor \in Accounts, receiver_id \in Accounts,
       amount \in SharesTried, attached_deposit \in {0, ONE_YOCTO} :
        LET r == IF state_exists
                 THEN ft_transfer(predecessor, receiver_id, amount, attached_deposit)
                 ELSE Abort(token, NOT_INITIALIZED)
        IN  /\ token' = r.token
            /\ ret' = Called("ft_transfer",
                             [predecessor |-> predecessor, receiver_id |-> receiver_id,
                              amount |-> amount],
                             IF r.ok THEN Ok(0) ELSE Panic(r.msg))
            /\ UNCHANGED <<state_exists, metadata, overflow_checks>>

(* The redemption of the underlying NFT: the one transition of `released` *)
Release ==
    /\ state_exists
    /\ ~released
    /\ metadata' = Some([ft_metadata EXCEPT !.released = TRUE])
    /\ ret' = Called("release", <<>>, Ok(0))
    /\ UNCHANGED <<state_exists, token, overflow_checks>>

View(op, args, out) ==
    /\ ret' = Called(op, args, out)
    /\ UNCHANGED <<state_exists, token, metadata, overflow_checks>>

ExitPrice ==
    View("exit_price", <<>>, IF state_exists THEN exit_price ELSE Panic(NOT_INITIALIZED))

RedeemAmountOf ==
    \E from \in Accounts :
        View("redeem_amount_of", [from |-> from],
             IF state_exists THEN redeem_amount_of(from) ELSE Panic(NOT_INITIALIZED))

VaultBalance ==
    View("vault_balance", <<>>, IF state_exists THEN vault_balance ELSE Panic(NOT_INITIALIZED))

VaultBalanceOf ==
    \E from \in Accounts :
        View("vault_balance_of", [from |-> from],
             IF state_exists THEN vault_balance_of(from) ELSE Panic(NOT_INITIALIZED))

FtTotalSupply ==
    View("ft_total_supply", <<>>,
         IF state_exists THEN Ok(ft_total_supply) ELSE Panic(NOT_INITIALIZED))

FtBalanceOf ==
    \E account_id \in Accounts :
        View("ft_balance_of", [account_id |-> account_id],
             IF state_exists THEN Ok(ft_balance_of(account_id)) ELSE Panic(NOT_INITIALIZED))

Next ==
    \/ Create
    \/ StorageDeposit
    \/ FtTransfer
    \/ Release
    \/ ExitPrice
    \/ RedeemAmountOf
    \/ VaultBalance
    \/ VaultBalanceOf
    \/ FtTotalSupply
    \/ FtBalanceOf

Spec == Init /\ [][Next]_vars

----------------------------------------------------------------------------
TypeOK ==
    /\ state_exists \in BOOLEAN
    /\ overflow_checks \in BOOLEAN
    /\ DOMAIN token.accounts \subseteq Accounts
    /\ \A a \in DOMAIN token.accounts : token.accounts[a] \in U128
    /\ token.total_supply \in U128
    /\ state_exists <=> (metadata # None)
    /\ ret.out.ok \in BOOLEAN

----------------------------------------------------------------------------
(* Properties *)

RECURSIVE SumBalances(_, _)
SumBalances(accounts, ids) ==
    IF ids = {} THEN 0
    ELSE LET a == CHOOSE x \in ids : TRUE
         IN  accounts[a] + SumBalances(accounts, ids \ {a})

Holders == {a \in Accounts : ft_balance_of(a) > 0}

(* the exact product total_supply * share_price fits the amount type *)
Priced == ft_total_supply * share_price < U128_MODULUS

(* C1: once created, for every (total_supply, share_price) whose product is *)
(* a valid amount, exit_price() returns exactly total_supply * share_price, *)
(* whatever `released` is and whoever holds the shares.                     *)
C1_ExitPrice ==
    (state_exists /\ Priced) => exit_price = Ok(ft_total_supply * share_price)

C1_Witness ==
    /\ state_exists
    /\ released
    /\ Cardinality(Holders) >= 2
    /\ share_price > 1
    /\ ret.op = "exit_price"
    /\ ret.out = Ok(ft_total_supply * share_price)

(* C2 as stated: in every unreleased state, for every account a,            *)
(* redeem_amount_of(a) returns exit_price() - ft_balance_of(a) * share_price *)
C2_RedeemAmount_AsStated ==
    (state_exists /\ ~released) =>
        \A a \in Accounts :
            /\ exit_price.ok
            /\ redeem_amount_of(a) = Ok(exit_price.val - ft_balance_of(a) * share_price)

(* C2 amended: in every unreleased state where total_supply * share_price   *)
(* fits in u128, redeem_amount_of(a) returns                                *)
(* exit_price() - ft_balance_of(a) * share_price for every account a; where *)
(* it does not fit, a build with overflow checks panics instead.            *)
C2_RedeemAmount ==
    (state_exists /\ ~released) =>
        \A a \in Accounts :
            /\ Priced =>
                 /\ exit_price.ok
                 /\ redeem_amount_of(a) =
                        Ok(exit_price.val - ft_balance_of(a) * share_price)
            /\ (~Priced /\ overflow_checks) =>
                 redeem_amount_of(a) = Panic("attempt to multiply with overflow")

C2_Witness ==
    /\ state_exists
    /\ ~released
    /\ Priced
    /\ ret.op = "redeem_amount_of"
    /\ ret.out.ok
    /\ ft_balance_of(ret.args.from) > 0
    /\ ret.out.val > 0
    /\ ret.out.val = exit_price.val - ft_balance_of(ret.args.from) * share_price

(* C3: while released is true redeem_amount_of(a) panics with "token       *)
(* already redeemed" for every account a and returns nothing; while        *)
(* released is false it never fails with that message.                     *)
C3_RedeemRejectedIffReleased ==
    state_exists =>
        \A a \in Accounts :
            released <=> (redeem_amount_of(a) = Panic("token already redeemed"))

C3_Witness ==
    /\ state_exists
    /\ released
    /\ ret.op = "redeem_amount_of"
    /\ ret.out = Panic("token already redeemed")

(* C4: in every unreleased state vault_balance() and vault_balance_of(a)   *)
(* return 0, whatever the supply, the balances and the share price are.    *)
C4_VaultEmptyWhileUnreleased ==
    (state_exists /\ ~released) =>
        /\ vault_balance = Ok(0)
        /\ \A a \in Accounts : vault_balance_of(a) = Ok(0)

C4_Witness ==
    /\ state_exists
    /\ ~released
    /\ share_price > 0
    /\ ret.op = "vault_balance_of"
    /\ ft_balance_of(ret.args.from) > 0
    /\ ret.out = Ok(0)

(* C5 as stated: in every released state vault_balance() returns           *)
(* total_supply * share_price and vault_balance_of(a) returns              *)
(* ft_balance_of(a) * share_price for every account a.                     *)
C5_VaultBalance_AsStated ==
    (state_exists /\ released) =>
        /\ vault_balance = Ok(ft_total_supply * share_price)
        /\ \A a \in Accounts :
               vault_balance_of(a) = Ok(ft_balance_of(a) * share_price)

(* C5 amended: in every released state vault_balance() returns             *)
(* total_supply * share_price when that product fits in u128, and          *)
(* vault_balance_of(a) returns ft_balance_of(a) * share_price when that    *)
(* product fits in u128; a product that does not fit makes a build with    *)
(* overflow checks panic instead.                                          *)
C5_VaultBalance ==
    (state_exists /\ released) =>
        /\ Priced => vault_balance = Ok(ft_total_supply * share_price)
        /\ (~Priced /\ overflow_checks) =>
               vault_balance = Panic("attempt to multiply with overflow")
        /\ \A a \in Accounts :
               /\ ft_balance_of(a) * share_price < U128_MODULUS =>
                      vault_balance_of(a) = Ok(ft_balance_of(a) * share_price)
               /\ (ft_balance_of(a) * share_price >= U128_MODULUS /\ overflow_checks) =>
                      vault_balance_of(a) = Panic("attempt to multiply with overflow")

C5_Witness ==
    /\ state_exists
    /\ released
    /\ Priced
    /\ Cardinality(Holders) >= 2
    /\ ret.op = "vault_balance_of"
    /\ ret.out.ok
    /\ ret.out.val > 0
    /\ ret.out.val = ft_balance_of(ret.args.from) * share_price

(* C6: right after a successful create the total supply is shares_count,   *)
(* the owner holds shares_count, every other account holds 0, the metadata *)
(* holds the given share_price and decimals, and released is false.        *)
C6_Create ==
    (ret.op = "create" /\ ret.out.ok) =>
        /\ state_exists
        /\ ft_total_supply = ret.args.shares_count
        /\ ft_balance_of(ret.args.owner_id) = ret.args.shares_count
        /\ \A a \in Accounts \ {ret.args.owner_id} : ft_balance_of(a) = 0
        /\ ft_metadata.share_price = ret.args.share_price
        /\ ft_metadata.decimals = ret.args.decimals
        /\ ft_metadata.released = FALSE

C6_Witness ==
    /\ ret.op = "create"
    /\ ret.out.ok
    /\ ret.args.shares_count = MaxShares
    /\ ret.args.share_price > 0
    /\ ret.args.decimals = DECIMALS
    /\ ft_balance_of(ret.args.owner_id) = MaxShares

(* C7: the balances of all accounts add up to the total supply *)
C7_SumOfBalances ==
    SumBalances(token.accounts, DOMAIN token.accounts) = ft_total_supply

C7_Witness ==
    /\ Cardinality(Holders) >= 2
    /\ Cardinality(DOMAIN token.accounts) = 3
    /\ ret.op = "ft_transfer"
    /\ ret.out.ok

(* C8: a successful ft_transfer takes exactly `amount` from the sender,    *)
(* gives exactly `amount` to the receiver and leaves every other balance,  *)
(* the total supply and exit_price() as they were.                         *)
C8_Transfer ==
    [][(ret'.op = "ft_transfer" /\ ret'.out.ok) =>
          LET sender == ret'.args.predecessor
              receiver == ret'.args.receiver_id
              amount == ret'.args.amount
          IN  /\ balance_of(token, sender) >= amount
              /\ receiver \in DOMAIN token.accounts
              /\ balance_of(token', sender) = balance_of(token, sender) - amount
              /\ balance_of(token', receiver) = balance_of(token, receiver) + amount
              /\ \A a \in Accounts \ {sender, receiver} :
                     balance_of(token', a) = balance_of(token, a)
              /\ ft_total_supply' = ft_total_supply
              /\ exit_price' = exit_price]_vars

C8_Witness ==
    /\ ret.op = "ft_transfer"
    /\ ret.out.ok
    /\ Cardinality(Holders) = 3
    /\ share_price > 0

C10_NoUnderflow_AsStated ==
    (state_exists /\ ~released) =>
        \A a \in Accounts :
            LET e == exit_price
                m == mul(ft_balance_of(a), share_price)
            IN  /\ (e.ok /\ m.ok) => m.val <= e.val
                /\ share_price > 0 =>
                     ((redeem_amount_of(a) = Ok(0)) <=> (ft_balance_of(a) = ft_total_supply))

(* C10 amended: the same, in the states where total_supply * share_price   *)
(* fits in u128.                                                           *)
C10_NoUnderflow ==
    (state_exists /\ ~released /\ Priced) =>
        \A a \in Accounts :
            LET e == exit_price
                m == mul(ft_balance_of(a), share_price)
            IN  /\ e.ok /\ m.ok /\ m.val <= e.val
                /\ redeem_amount_of(a).ok
                /\ share_price > 0 =>
                     ((redeem_amount_of(a) = Ok(0)) <=> (ft_balance_of(a) = ft_total_supply))

C10_Witness ==
    /\ state_exists
    /\ ~released
    /\ Priced
    /\ share_price > 0
    /\ Cardinality(DOMAIN token.accounts) >= 2
    /\ ret.op = "redeem_amount_of"
    /\ ret.out = Ok(0)
    /\ ft_balance_of(ret.args.from) = ft_total_supply
    /\ ft_total_supply > 0

====
